---------------------------- MODULE Spec2Model ----------------------------
(* A model of go/base/context.go: the MigrationContext shared by every     *)
(* component of a migration, its guarded accessors and its parsers.        *)
(*                                                                         *)
(* Go strings that the code takes apart or builds (the max-load list, the  *)
(* table and lock names) are sequences of one-character strings; strings   *)
(* the code only stores and compares (user, password, throttle reason)     *)
(* are TLA+ strings.                                                       *)
EXTENDS Integers, Sequences, FiniteSets, TLC

(* ------------------------------ bounds -------------------------------- *)

\* longest max-load list drawn as an input
MaxLen == 8
\* the clock stops ticking here
MaxTime == 2
\* chunks copied / change events applied at most
MaxCount == 1

(* ------------------------- program constants -------------------------- *)

\* const ( CutOverTwoStep CutOver = 1; CutOverVoluntaryLock; CutOverUdfWait ):
\* a constant with no expression of its own repeats the previous one's
\* expression, and that expression ("CutOver = 1") holds no iota.
CutOverTwoStep == 1
CutOverVoluntaryLock == CutOverTwoStep
CutOverUdfWait == CutOverVoluntaryLock

maxRetries == 10

(* ------------------------------ strings ------------------------------- *)

\* the characters a max-load list is drawn from
Alphabet == {"a", "1", "=", ","}

Strings(n) == UNION {[1..k -> Alphabet] : k \in 0..n}

\* strings.Split(s, sep) for a one-character sep: the substrings between the
\* separators, in order; always at least one (the empty string gives <<"">>).
RECURSIVE SplitFrom(_, _, _, _)
SplitFrom(s, sep, i, cur) ==
  IF i > Len(s) THEN <<cur>>
  ELSE IF s[i] = sep THEN <<cur>> \o SplitFrom(s, sep, i + 1, <<>>)
  ELSE SplitFrom(s, sep, i + 1, Append(cur, s[i]))

Split(s, sep) == SplitFrom(s, sep, 1, <<>>)

DigitChars == <<"0", "1", "2", "3", "4", "5", "6", "7", "8", "9">>

IsDigit(c) == \E d \in 1..10 : DigitChars[d] = c

DigitVal(c) == (CHOOSE d \in 1..10 : DigitChars[d] = c) - 1

RECURSIVE ParseUint(_, _, _)
ParseUint(s, i, acc) ==
  IF i > Len(s) THEN acc ELSE ParseUint(s, i + 1, acc * 10 + DigitVal(s[i]))

\* strconv.ParseInt(s, 10, 0): an optional sign, then one or more decimal
\* digits. (The range error needs more than 18 digits, beyond MaxLen.)
ParseInt(s) ==
  LET signed == Len(s) > 0 /\ s[1] \in {"+", "-"}
      body   == IF signed THEN SubSeq(s, 2, Len(s)) ELSE s
  IN  IF Len(body) = 0 \/ \E i \in 1..Len(body) : ~IsDigit(body[i])
      THEN [n |-> 0, err |-> TRUE]
      ELSE [n |-> IF signed /\ s[1] = "-" THEN 0 - ParseUint(body, 1, 0)
                  ELSE ParseUint(body, 1, 0),
            err |-> FALSE]

\* fmt.Sprintf(format, args...) for %s verbs: the format is copied, each %s
\* replaced by the next argument (which is not scanned again).
RECURSIVE SprintfFrom(_, _, _)
SprintfFrom(format, i, args) ==
  IF i > Len(format) THEN <<>>
  ELSE IF format[i] = "%" /\ i < Len(format) /\ format[i + 1] = "s" /\ Len(args) > 0
       THEN Head(args) \o SprintfFrom(format, i + 2, Tail(args))
       ELSE <<format[i]>> \o SprintfFrom(format, i + 1, args)

Sprintf(format, args) == SprintfFrom(format, 1, args)

(* ------------------------------- state -------------------------------- *)

VARIABLES
  \* MigrationContext fields
  DatabaseName, OriginalTableName,
  config, configMutex, ConfigFile, CliUser, CliPassword,
  ChunkSize, MaxLagMillisecondsThrottleThreshold, MaxLoad,
  SwapTablesTimeoutSeconds, CutOverType,
  InspectorConnectionConfig,
  pointOfInterestTime, pointOfInterestTimeMutex,
  TotalRowsCopied, TotalDMLEventsApplied,
  isThrottled, throttleReason, throttleMutex,
  MigrationRangeMinValues, MigrationRangeMaxValues, Iteration,
  \* the environment: the --max-load flag, what the config file holds, the clock
  maxLoadList, fileConfig, now,
  \* each goroutine: where it is, its arguments and locals, what its last call returned
  pc, local, ret,
  \* history: the pair of the last SetThrottled call that completed its writes,
  \* and whether anything has run since construction
  lastSet, fresh

inputs   == <<DatabaseName, OriginalTableName, ConfigFile, CliUser, CliPassword,
              maxLoadList, fileConfig>>
settings == <<ChunkSize, MaxLagMillisecondsThrottleThreshold, SwapTablesTimeoutSeconds>>
range    == <<MigrationRangeMinValues, MigrationRangeMaxValues>>
counters == <<Iteration, TotalRowsCopied, TotalDMLEventsApplied>>
throttleState == <<isThrottled, throttleReason, lastSet>>
creds    == <<config, InspectorConnectionConfig>>
mutexes  == <<configMutex, pointOfInterestTimeMutex, throttleMutex>>

vars == <<inputs, settings, range, counters, throttleState, creds, mutexes,
          MaxLoad, CutOverType, pointOfInterestTime, now, pc, local, ret, fresh>>

Threads == {"t1", "t2"}

\* an unlocked sync.Mutex
Unlocked == "unlocked"

\* a nil *sql.ColumnValues
Nil == "nil"

EmptyMap == [k \in {} |-> 0]

NoLocal == [flag |-> FALSE, str |-> "", num |-> 0]

NoRet == [op |-> "", flag |-> FALSE, str |-> "", num |-> 0, seq |-> <<>>]

Returned(o) == [NoRet EXCEPT !.op = o]

(* --------------------------- construction ----------------------------- *)

\* a faulty variant: the chunk size and the swap timeout left at their zero values
newMigrationContext_NoDefaults ==
  /\ ChunkSize = 0
  /\ InspectorConnectionConfig = [User |-> "", Password |-> ""]
  /\ MaxLagMillisecondsThrottleThreshold = 1000
  /\ SwapTablesTimeoutSeconds = 0
  /\ MaxLoad = [k \in {} |-> 0]
  /\ throttleMutex = "unlocked"
  /\ configMutex = "unlocked"
  /\ pointOfInterestTimeMutex = "unlocked"
  /\ config = [User |-> "", Password |-> ""]
  /\ CutOverType = 0
  /\ pointOfInterestTime = 0
  /\ TotalRowsCopied = 0
  /\ TotalDMLEventsApplied = 0
  /\ isThrottled = FALSE
  /\ throttleReason = ""
  /\ MigrationRangeMinValues = "nil"
  /\ MigrationRangeMaxValues = "nil"
  /\ Iteration = 0

\* newMigrationContext(): the fields it sets, the others at their zero values
newMigrationContext ==
  /\ ChunkSize = 1000
  /\ InspectorConnectionConfig = [User |-> "", Password |-> ""]
  /\ MaxLagMillisecondsThrottleThreshold = 1000
  /\ SwapTablesTimeoutSeconds = 3
  /\ MaxLoad = EmptyMap
  /\ throttleMutex = Unlocked
  /\ configMutex = Unlocked
  /\ pointOfInterestTimeMutex = Unlocked
  /\ config = [User |-> "", Password |-> ""]
  /\ CutOverType = 0
  /\ pointOfInterestTime = 0
  /\ TotalRowsCopied = 0
  /\ TotalDMLEventsApplied = 0
  /\ isThrottled = FALSE
  /\ throttleReason = ""
  /\ MigrationRangeMinValues = Nil
  /\ MigrationRangeMaxValues = Nil
  /\ Iteration = 0

\* no goroutine has called anything yet; the clock has started
Started ==
  /\ now = 1
  /\ pc = [t \in Threads |-> "idle"]
  /\ local = [t \in Threads |-> NoLocal]
  /\ ret = [t \in Threads |-> NoRet]
  /\ lastSet = <<FALSE, "">>
  /\ fresh = TRUE

HasMigrationRange == MigrationRangeMinValues # Nil /\ MigrationRangeMaxValues # Nil

MaxRetries == maxRetries

(* ------------------------- calls and returns -------------------------- *)

\* a goroutine enters a method: its arguments are in local, nothing returned yet
Call(t, entry, args) ==
  /\ pc[t] = "idle"
  /\ pc' = [pc EXCEPT ![t] = entry]
  /\ local' = [local EXCEPT ![t] = args]
  /\ ret' = [ret EXCEPT ![t] = NoRet]
  /\ fresh' = FALSE

\* a goroutine leaves a method with result r
Return(t, r) ==
  /\ pc' = [pc EXCEPT ![t] = "idle"]
  /\ local' = [local EXCEPT ![t] = NoLocal]
  /\ ret' = [ret EXCEPT ![t] = r]
  /\ fresh' = FALSE

Goto(t, next) ==
  /\ pc' = [pc EXCEPT ![t] = next]
  /\ UNCHANGED ret
  /\ fresh' = FALSE

(* ----------------------------- throttling ----------------------------- *)

\* the (throttle, reason) pairs the throttler passes
ThrottleArgs == {<<FALSE, "">>, <<TRUE, "lag">>, <<TRUE, "max-load">>}

SetThrottledCall(t, throttle, reason) ==
  /\ Call(t, "SetThrottled_Lock", [flag |-> throttle, str |-> reason, num |-> 0])
  /\ UNCHANGED <<inputs, settings, range, counters, throttleState, creds, mutexes,
                 MaxLoad, CutOverType, pointOfInterestTime, now>>

\* a faulty variant: SetThrottled goes on without taking the mutex
SetThrottledLock_NoMutex(t) ==
  /\ pc[t] = "SetThrottled_Lock"
  /\ Goto(t, "SetThrottled_isThrottled")
  /\ UNCHANGED <<inputs, settings, range, counters, throttleState, creds, mutexes,
                 MaxLoad, CutOverType, pointOfInterestTime, now, local>>

\* this.throttleMutex.Lock()
SetThrottledLock(t) ==
  /\ pc[t] = "SetThrottled_Lock"
  /\ throttleMutex = Unlocked
  /\ throttleMutex' = t
  /\ Goto(t, "SetThrottled_isThrottled")
  /\ UNCHANGED <<inputs, settings, range, counters, throttleState, creds,
                 configMutex, pointOfInterestTimeMutex,
                 MaxLoad, CutOverType, pointOfInterestTime, now, local>>

\* this.isThrottled = throttle
SetThrottledFlag(t) ==
  /\ pc[t] = "SetThrottled_isThrottled"
  /\ isThrottled' = local[t].flag
  /\ Goto(t, "SetThrottled_throttleReason")
  /\ UNCHANGED <<inputs, settings, range, counters, throttleReason, lastSet, creds,
                 mutexes, MaxLoad, CutOverType, pointOfInterestTime, now, local>>

\* this.throttleReason = reason
SetThrottledReason(t) ==
  /\ pc[t] = "SetThrottled_throttleReason"
  /\ throttleReason' = local[t].str
  /\ lastSet' = <<local[t].flag, local[t].str>>
  /\ Goto(t, "SetThrottled_Unlock")
  /\ UNCHANGED <<inputs, settings, range, counters, isThrottled, creds,
                 mutexes, MaxLoad, CutOverType, pointOfInterestTime, now, local>>

\* a faulty variant: SetThrottled returns without unlocking
SetThrottledUnlock_NoUnlock(t) ==
  /\ pc[t] = "SetThrottled_Unlock"
  /\ Return(t, Returned("SetThrottled"))
  /\ UNCHANGED <<inputs, settings, range, counters, throttleState, creds, mutexes,
                 MaxLoad, CutOverType, pointOfInterestTime, now>>

\* defer this.throttleMutex.Unlock()
SetThrottledUnlock(t) ==
  /\ pc[t] = "SetThrottled_Unlock"
  /\ throttleMutex' = Unlocked
  /\ Return(t, Returned("SetThrottled"))
  /\ UNCHANGED <<inputs, settings, range, counters, throttleState, creds,
                 configMutex, pointOfInterestTimeMutex,
                 MaxLoad, CutOverType, pointOfInterestTime, now>>

IsThrottledCall(t) ==
  /\ Call(t, "IsThrottled_Lock", NoLocal)
  /\ UNCHANGED <<inputs, settings, range, counters, throttleState, creds, mutexes,
                 MaxLoad, CutOverType, pointOfInterestTime, now>>

\* this.throttleMutex.Lock()
IsThrottledLock(t) ==
  /\ pc[t] = "IsThrottled_Lock"
  /\ throttleMutex = Unlocked
  /\ throttleMutex' = t
  /\ Goto(t, "IsThrottled_isThrottled")
  /\ UNCHANGED <<inputs, settings, range, counters, throttleState, creds,
                 configMutex, pointOfInterestTimeMutex,
                 MaxLoad, CutOverType, pointOfInterestTime, now, local>>

\* return this.isThrottled, ...: the first result is read
IsThrottledFlag(t) ==
  /\ pc[t] = "IsThrottled_isThrottled"
  /\ local' = [local EXCEPT ![t].flag = isThrottled]
  /\ Goto(t, "IsThrottled_throttleReason")
  /\ UNCHANGED <<inputs, settings, range, counters, throttleState, creds, mutexes,
                 MaxLoad, CutOverType, pointOfInterestTime, now>>

\* return ..., this.throttleReason: the second result is read
IsThrottledReason(t) ==
  /\ pc[t] = "IsThrottled_throttleReason"
  /\ local' = [local EXCEPT ![t].str = throttleReason]
  /\ Goto(t, "IsThrottled_Unlock")
  /\ UNCHANGED <<inputs, settings, range, counters, throttleState, creds, mutexes,
                 MaxLoad, CutOverType, pointOfInterestTime, now>>

\* defer this.throttleMutex.Unlock()
IsThrottledUnlock(t) ==
  /\ pc[t] = "IsThrottled_Unlock"
  /\ throttleMutex' = Unlocked
  /\ Return(t, [Returned("IsThrottled") EXCEPT !.flag = local[t].flag,
                                              !.str = local[t].str])
  /\ UNCHANGED <<inputs, settings, range, counters, throttleState, creds,
                 configMutex, pointOfInterestTimeMutex,
                 MaxLoad, CutOverType, pointOfInterestTime, now>>

(* ------------------------- point of interest -------------------------- *)

MarkPointOfInterestCall(t) ==
  /\ Call(t, "MarkPointOfInterest_Lock", NoLocal)
  /\ UNCHANGED <<inputs, settings, range, counters, throttleState, creds, mutexes,
                 MaxLoad, CutOverType, pointOfInterestTime, now>>

\* this.pointOfInterestTimeMutex.Lock()
MarkPointOfInterestLock(t) ==
  /\ pc[t] = "MarkPointOfInterest_Lock"
  /\ pointOfInterestTimeMutex = Unlocked
  /\ pointOfInterestTimeMutex' = t
  /\ Goto(t, "MarkPointOfInterest_body")
  /\ UNCHANGED <<inputs, settings, range, counters, throttleState, creds,
                 configMutex, throttleMutex,
                 MaxLoad, CutOverType, pointOfInterestTime, now, local>>

\* a faulty variant: atomic.AddInt64(&this.Iteration, 1) in place of the load
MarkPointOfInterest_AddIteration(t) ==
  /\ pc[t] = "MarkPointOfInterest_body"
  /\ pointOfInterestTime' = now
  /\ Iteration' = Iteration + 1
  /\ local' = [local EXCEPT ![t].num = Iteration + 1]
  /\ Goto(t, "MarkPointOfInterest_Unlock")
  /\ UNCHANGED <<inputs, settings, range, TotalRowsCopied, TotalDMLEventsApplied,
                 throttleState, creds, mutexes, MaxLoad, CutOverType, now>>

\* this.pointOfInterestTime = time.Now(); return atomic.LoadInt64(&this.Iteration)
MarkPointOfInterest(t) ==
  /\ pc[t] = "MarkPointOfInterest_body"
  /\ pointOfInterestTime' = now
  /\ local' = [local EXCEPT ![t].num = Iteration]
  /\ Goto(t, "MarkPointOfInterest_Unlock")
  /\ UNCHANGED <<inputs, settings, range, counters, throttleState, creds, mutexes,
                 MaxLoad, CutOverType, now>>

\* defer this.pointOfInterestTimeMutex.Unlock()
MarkPointOfInterestUnlock(t) ==
  /\ pc[t] = "MarkPointOfInterest_Unlock"
  /\ pointOfInterestTimeMutex' = Unlocked
  /\ Return(t, [Returned("MarkPointOfInterest") EXCEPT !.num = local[t].num])
  /\ UNCHANGED <<inputs, settings, range, counters, throttleState, creds,
                 configMutex, throttleMutex,
                 MaxLoad, CutOverType, pointOfInterestTime, now>>

TimeSincePointOfInterestCall(t) ==
  /\ Call(t, "TimeSincePointOfInterest_Lock", NoLocal)
  /\ UNCHANGED <<inputs, settings, range, counters, throttleState, creds, mutexes,
                 MaxLoad, CutOverType, pointOfInterestTime, now>>

\* this.pointOfInterestTimeMutex.Lock()
TimeSincePointOfInterestLock(t) ==
  /\ pc[t] = "TimeSincePointOfInterest_Lock"
  /\ pointOfInterestTimeMutex = Unlocked
  /\ pointOfInterestTimeMutex' = t
  /\ Goto(t, "TimeSincePointOfInterest_body")
  /\ UNCHANGED <<inputs, settings, range, counters, throttleState, creds,
                 configMutex, throttleMutex,
                 MaxLoad, CutOverType, pointOfInterestTime, now, local>>

\* return time.Now().Sub(this.pointOfInterestTime), then the deferred Unlock
TimeSincePointOfInterest(t) ==
  /\ pc[t] = "TimeSincePointOfInterest_body"
  /\ pointOfInterestTimeMutex' = Unlocked
  /\ Return(t, [Returned("TimeSincePointOfInterest") EXCEPT
                  !.num = now - pointOfInterestTime])
  /\ UNCHANGED <<inputs, settings, range, counters, throttleState, creds,
                 configMutex, throttleMutex,
                 MaxLoad, CutOverType, pointOfInterestTime, now>>

(* ------------------------------ counters ------------------------------ *)

\* return atomic.LoadInt64(&this.TotalRowsCopied)
GetTotalRowsCopied(t) ==
  /\ pc[t] = "idle"
  /\ Return(t, [Returned("GetTotalRowsCopied") EXCEPT !.num = TotalRowsCopied])
  /\ UNCHANGED <<inputs, settings, range, counters, throttleState, creds, mutexes,
                 MaxLoad, CutOverType, pointOfInterestTime, now>>

\* return atomic.LoadInt64(&this.Iteration)
GetIteration(t) ==
  /\ pc[t] = "idle"
  /\ Return(t, [Returned("GetIteration") EXCEPT !.num = Iteration])
  /\ UNCHANGED <<inputs, settings, range, counters, throttleState, creds, mutexes,
                 MaxLoad, CutOverType, pointOfInterestTime, now>>

(* ---------------------------- derived names --------------------------- *)

GetGhostTableName == Sprintf(<<"_", "%", "s", "_", "g", "s", "t">>, <<OriginalTableName>>)

\* a faulty variant: the ghost table's format, copied
GetOldTableName_GhostFormat ==
  Sprintf(<<"_", "%", "s", "_", "g", "s", "t">>, <<OriginalTableName>>)

GetOldTableName == Sprintf(<<"_", "%", "s", "_", "o", "l", "d">>, <<OriginalTableName>>)

GetChangelogTableName == Sprintf(<<"_", "%", "s", "_", "o", "s", "c">>, <<OriginalTableName>>)

GetVoluntaryLockName ==
  Sprintf(<<"%", "s", ".", "%", "s", ".", "l", "o", "c", "k">>,
          <<DatabaseName, OriginalTableName>>)

\* a goroutine calls one of the four name getters
GetName(t, getter, name) ==
  /\ pc[t] = "idle"
  /\ Return(t, [Returned(getter) EXCEPT !.seq = name])
  /\ UNCHANGED <<inputs, settings, range, counters, throttleState, creds, mutexes,
                 MaxLoad, CutOverType, pointOfInterestTime, now>>

CallGetGhostTableName(t) == GetName(t, "GetGhostTableName", GetGhostTableName)

CallGetOldTableName(t) == GetName(t, "GetOldTableName", GetOldTableName)

CallGetChangelogTableName(t) == GetName(t, "GetChangelogTableName", GetChangelogTableName)

CallGetVoluntaryLockName(t) == GetName(t, "GetVoluntaryLockName", GetVoluntaryLockName)

(* ------------------------------ max-load ------------------------------ *)

\* a faulty variant: this.MaxLoad[name] += n
MapAssign_Add(m, name, n) ==
  [k \in DOMAIN m \cup {name} |->
     IF k = name THEN (IF name \in DOMAIN m THEN m[name] ELSE 0) + n ELSE m[k]]

\* this.MaxLoad[name] = n
MapAssign(m, name, n) ==
  [k \in DOMAIN m \cup {name} |-> IF k = name THEN n ELSE m[k]]

\* the loop over the comma-separated conditions, from the i-th on: the mapping
\* as the loop leaves it and the error returned ("" for nil)
RECURSIVE ReadMaxLoadFrom(_, _, _)
ReadMaxLoadFrom(m, maxLoadConditions, i) ==
  IF i > Len(maxLoadConditions) THEN [MaxLoad |-> m, err |-> "", cond |-> <<>>]
  ELSE
    LET maxLoadCondition == maxLoadConditions[i]
        maxLoadTokens    == Split(maxLoadCondition, "=")
    IN  IF Len(maxLoadTokens) # 2
        THEN [MaxLoad |-> m, err |-> "Error parsing max-load condition",
              cond |-> maxLoadCondition]
        ELSE IF maxLoadTokens[1] = <<>>
        THEN [MaxLoad |-> m, err |-> "Error parsing status variable in max-load condition",
              cond |-> maxLoadCondition]
        ELSE IF ParseInt(maxLoadTokens[2]).err
        THEN [MaxLoad |-> m, err |-> "Error parsing numeric value in max-load condition",
              cond |-> maxLoadCondition]
        ELSE ReadMaxLoadFrom(MapAssign(m, maxLoadTokens[1], ParseInt(maxLoadTokens[2]).n),
                             maxLoadConditions, i + 1)

\* a faulty variant: the empty list is not returned on early
ReadMaxLoadResult_NoEmptyCheck(m, list) == ReadMaxLoadFrom(m, Split(list, ","), 1)

\* ReadMaxLoad(maxLoadList) on mapping m
ReadMaxLoadResult(m, list) ==
  IF list = <<>> THEN [MaxLoad |-> m, err |-> "", cond |-> <<>>]
  ELSE ReadMaxLoadFrom(m, Split(list, ","), 1)

\* a goroutine calls ReadMaxLoad with the --max-load flag
ReadMaxLoad(t) ==
  /\ pc[t] = "idle"
  /\ LET r == ReadMaxLoadResult(MaxLoad, maxLoadList)
     IN  /\ MaxLoad' = r.MaxLoad
         /\ Return(t, [Returned("ReadMaxLoad") EXCEPT !.str = r.err, !.seq = r.cond])
  /\ UNCHANGED <<inputs, settings, range, counters, throttleState, creds, mutexes,
                 CutOverType, pointOfInterestTime, now>>

(* ---------------------------- credentials ----------------------------- *)

ApplyCredentialsCall(t) ==
  /\ Call(t, "ApplyCredentials_Lock", NoLocal)
  /\ UNCHANGED <<inputs, settings, range, counters, throttleState, creds, mutexes,
                 MaxLoad, CutOverType, pointOfInterestTime, now>>

\* this.configMutex.Lock()
ApplyCredentialsLock(t) ==
  /\ pc[t] = "ApplyCredentials_Lock"
  /\ configMutex = Unlocked
  /\ configMutex' = t
  /\ Goto(t, "ApplyCredentials_body")
  /\ UNCHANGED <<inputs, settings, range, counters, throttleState, creds,
                 pointOfInterestTimeMutex, throttleMutex,
                 MaxLoad, CutOverType, pointOfInterestTime, now, local>>

\* a faulty variant: the file's values are applied after the command line's
CredentialsApplied_FileWins(conn, cfg, cliUser, cliPassword) ==
  LET c1 == IF cliUser # "" THEN [conn EXCEPT !.User = cliUser] ELSE conn
      c2 == IF cfg.User # "" THEN [c1 EXCEPT !.User = cfg.User] ELSE c1
      c3 == IF cliPassword # "" THEN [c2 EXCEPT !.Password = cliPassword] ELSE c2
      c4 == IF cfg.Password # "" THEN [c3 EXCEPT !.Password = cfg.Password] ELSE c3
  IN  c4

\* the four ifs of ApplyCredentials, in the code's order
CredentialsApplied(conn, cfg, cliUser, cliPassword) ==
  LET c1 == IF cfg.User # "" THEN [conn EXCEPT !.User = cfg.User] ELSE conn
      c2 == IF cliUser # "" THEN [c1 EXCEPT !.User = cliUser] ELSE c1
      c3 == IF cfg.Password # "" THEN [c2 EXCEPT !.Password = cfg.Password] ELSE c2
      c4 == IF cliPassword # "" THEN [c3 EXCEPT !.Password = cliPassword] ELSE c3
  IN  c4

\* the body, then the deferred this.configMutex.Unlock()
ApplyCredentials(t) ==
  /\ pc[t] = "ApplyCredentials_body"
  /\ InspectorConnectionConfig' =
       CredentialsApplied(InspectorConnectionConfig, config, CliUser, CliPassword)
  /\ configMutex' = Unlocked
  /\ Return(t, Returned("ApplyCredentials"))
  /\ UNCHANGED <<inputs, settings, range, counters, throttleState, config,
                 pointOfInterestTimeMutex, throttleMutex,
                 MaxLoad, CutOverType, pointOfInterestTime, now>>

ReadConfigFileCall(t) ==
  /\ Call(t, "ReadConfigFile_Lock", NoLocal)
  /\ UNCHANGED <<inputs, settings, range, counters, throttleState, creds, mutexes,
                 MaxLoad, CutOverType, pointOfInterestTime, now>>

\* this.configMutex.Lock()
ReadConfigFileLock(t) ==
  /\ pc[t] = "ReadConfigFile_Lock"
  /\ configMutex = Unlocked
  /\ configMutex' = t
  /\ Goto(t, "ReadConfigFile_body")
  /\ UNCHANGED <<inputs, settings, range, counters, throttleState, creds,
                 pointOfInterestTimeMutex, throttleMutex,
                 MaxLoad, CutOverType, pointOfInterestTime, now, local>>

\* gcfg.ReadFileInto(&this.config, this.ConfigFile): the file is read into the
\* configuration, or reading fails after none or some of it was stored
ReadFileInto(cfg, err) ==
  IF err = "" THEN {fileConfig}
  ELSE {cfg, [cfg EXCEPT !.User = fileConfig.User]}

\* the body, then the deferred this.configMutex.Unlock()
ReadConfigFile(t) ==
  /\ pc[t] = "ReadConfigFile_body"
  /\ IF ConfigFile = ""
     THEN /\ config' = config
          /\ Return(t, Returned("ReadConfigFile"))
     ELSE \E err \in {"", "read error"} :
            /\ config' \in ReadFileInto(config, err)
            /\ Return(t, [Returned("ReadConfigFile") EXCEPT !.str = err])
  /\ configMutex' = Unlocked
  /\ UNCHANGED <<inputs, settings, range, counters, throttleState,
                 InspectorConnectionConfig,
                 pointOfInterestTimeMutex, throttleMutex,
                 MaxLoad, CutOverType, pointOfInterestTime, now>>

(* ------------------- the workers and the environment ------------------ *)

\* the inspector records the migration key's global minimum and maximum
ReadMigrationRangeValues ==
  /\ ~HasMigrationRange
  /\ MigrationRangeMinValues' = "min"
  /\ MigrationRangeMaxValues' = "max"
  /\ fresh' = FALSE
  /\ UNCHANGED <<inputs, settings, counters, throttleState, creds, mutexes,
                 MaxLoad, CutOverType, pointOfInterestTime, now, pc, local, ret>>

\* the row copier completes a chunk: one more iteration, its rows added
CopyChunk ==
  /\ HasMigrationRange
  /\ Iteration < MaxCount
  /\ Iteration' = Iteration + 1
  /\ TotalRowsCopied' = TotalRowsCopied + ChunkSize
  /\ fresh' = FALSE
  /\ UNCHANGED <<inputs, settings, range, TotalDMLEventsApplied, throttleState, creds,
                 mutexes, MaxLoad, CutOverType, pointOfInterestTime, now, pc, local, ret>>

\* the change-stream applier applies one event
ApplyDMLEvent ==
  /\ TotalDMLEventsApplied < MaxCount
  /\ TotalDMLEventsApplied' = TotalDMLEventsApplied + 1
  /\ fresh' = FALSE
  /\ UNCHANGED <<inputs, settings, range, Iteration, TotalRowsCopied, throttleState,
                 creds, mutexes, MaxLoad, CutOverType, pointOfInterestTime, now,
                 pc, local, ret>>

\* the cut-over strategy is selected, once, at startup
SelectCutOver(strategy) ==
  /\ CutOverType = 0
  /\ CutOverType' = strategy
  /\ fresh' = FALSE
  /\ UNCHANGED <<inputs, settings, range, counters, throttleState, creds, mutexes,
                 MaxLoad, pointOfInterestTime, now, pc, local, ret>>

\* time passes
Tick ==
  /\ now < MaxTime
  /\ now' = now + 1
  /\ fresh' = FALSE
  /\ UNCHANGED <<inputs, settings, range, counters, throttleState, creds, mutexes,
                 MaxLoad, CutOverType, pointOfInterestTime, pc, local, ret>>

(* --------------------------- specifications --------------------------- *)

\* the goroutine that starts the migration
Main == "t1"

TableNames == {<<>>, <<"t">>, <<"%", "s">>}

ThrottleOps(t, args) ==
  \/ \E a \in args : SetThrottledCall(t, a[1], a[2])
  \/ SetThrottledLock(t)
  \/ SetThrottledFlag(t)
  \/ SetThrottledReason(t)
  \/ SetThrottledUnlock(t)
  \/ IsThrottledCall(t)
  \/ IsThrottledLock(t)
  \/ IsThrottledFlag(t)
  \/ IsThrottledReason(t)
  \/ IsThrottledUnlock(t)

PointOfInterestOps(t) ==
  \/ MarkPointOfInterestCall(t)
  \/ MarkPointOfInterestLock(t)
  \/ MarkPointOfInterest(t)
  \/ MarkPointOfInterestUnlock(t)
  \/ TimeSincePointOfInterestCall(t)
  \/ TimeSincePointOfInterestLock(t)
  \/ TimeSincePointOfInterest(t)

ConfigOps(t) ==
  \/ ApplyCredentialsCall(t)
  \/ ApplyCredentialsLock(t)
  \/ ApplyCredentials(t)
  \/ ReadConfigFileCall(t)
  \/ ReadConfigFileLock(t)
  \/ ReadConfigFile(t)

LockFreeOps(t) ==
  \/ GetTotalRowsCopied(t)
  \/ GetIteration(t)
  \/ CallGetGhostTableName(t)
  \/ CallGetOldTableName(t)
  \/ CallGetChangelogTableName(t)
  \/ CallGetVoluntaryLockName(t)
  \/ ReadMaxLoad(t)

Environment ==
  \/ ReadMigrationRangeValues
  \/ CopyChunk
  \/ ApplyDMLEvent
  \/ \E c \in {CutOverTwoStep, CutOverVoluntaryLock, CutOverUdfWait} : SelectCutOver(c)
  \/ Tick

\* One goroutine calling every operation, the workers and the clock.
Init ==
  /\ newMigrationContext
  /\ Started
  /\ DatabaseName = <<"d">>
  /\ OriginalTableName \in TableNames
  /\ ConfigFile = "gh-ost.cnf"
  /\ CliUser = "cli-user"
  /\ CliPassword = ""
  /\ fileConfig = [User |-> "file-user", Password |-> "file-password"]
  /\ maxLoadList = <<"a", "=", "1", ",", "a">>

Next ==
  \/ Environment
  \/ ThrottleOps(Main, {<<FALSE, "">>, <<TRUE, "lag">>})
  \/ PointOfInterestOps(Main)
  \/ ConfigOps(Main)
  \/ LockFreeOps(Main)

Spec == Init /\ [][Next]_vars

\* Goroutines calling the lock-guarded operations concurrently.
InitConc ==
  /\ newMigrationContext
  /\ Started
  /\ DatabaseName = <<"d">>
  /\ OriginalTableName = <<"t">>
  /\ ConfigFile = "gh-ost.cnf"
  /\ CliUser = "cli-user"
  /\ CliPassword = ""
  /\ fileConfig = [User |-> "file-user", Password |-> "file-password"]
  /\ maxLoadList = <<>>

NextConc ==
  \E t \in Threads :
    \/ ThrottleOps(t, ThrottleArgs)
    \/ PointOfInterestOps(t)
    \/ ConfigOps(t)

SpecConc == InitConc /\ [][NextConc]_vars

\* ReadMaxLoad on every max-load list up to MaxLen characters.
InitMaxLoad ==
  /\ newMigrationContext
  /\ Started
  /\ DatabaseName = <<"d">>
  /\ OriginalTableName = <<"t">>
  /\ ConfigFile = ""
  /\ CliUser = ""
  /\ CliPassword = ""
  /\ fileConfig = [User |-> "", Password |-> ""]
  /\ maxLoadList \in Strings(MaxLen)

NextMaxLoad == ReadMaxLoad(Main)

SpecMaxLoad == InitMaxLoad /\ [][NextMaxLoad]_vars

\* The credentials, over every combination of command-line and file values.
InitCredentials ==
  /\ newMigrationContext
  /\ Started
  /\ DatabaseName = <<"d">>
  /\ OriginalTableName = <<"t">>
  /\ ConfigFile \in {"", "gh-ost.cnf"}
  /\ CliUser \in {"", "cli-user"}
  /\ CliPassword \in {"", "cli-password"}
  /\ fileConfig \in [User : {"", "file-user"}, Password : {"", "file-password"}]
  /\ maxLoadList = <<>>

NextCredentials == ConfigOps(Main)

SpecCredentials == InitCredentials /\ [][NextCredentials]_vars

\* The same goroutines, scheduled fairly: a goroutine that can run does run,
\* and sync.Mutex (starvation mode) hands the mutex to a goroutine that keeps
\* waiting for it. Nothing obliges a goroutine to call anything.
LockStep(t) ==
  \/ SetThrottledLock(t)
  \/ IsThrottledLock(t)
  \/ MarkPointOfInterestLock(t)
  \/ TimeSincePointOfInterestLock(t)
  \/ ApplyCredentialsLock(t)
  \/ ReadConfigFileLock(t)

BodyStep(t) ==
  \/ SetThrottledFlag(t)
  \/ SetThrottledReason(t)
  \/ SetThrottledUnlock(t)
  \/ IsThrottledFlag(t)
  \/ IsThrottledReason(t)
  \/ IsThrottledUnlock(t)
  \/ MarkPointOfInterest(t)
  \/ MarkPointOfInterestUnlock(t)
  \/ TimeSincePointOfInterest(t)
  \/ ApplyCredentials(t)
  \/ ReadConfigFile(t)

SpecConcFair ==
  SpecConc /\ \A t \in Threads : WF_vars(BodyStep(t)) /\ SF_vars(LockStep(t))

(* ----------------------- max-load lists, described -------------------- *)

\* where the pieces of a comma-separated list start and end
Cuts(s) == {i \in 1..Len(s) : s[i] = ","} \cup {0, Len(s) + 1}

\* the pieces as (position, text) pairs
Pieces(s) ==
  {<<a, SubSeq(s, a + 1, b - 1)>> :
     <<a, b>> \in {c \in Cuts(s) \X Cuts(s) :
                     c[1] < c[2] /\ ~\E x \in Cuts(s) : c[1] < x /\ x < c[2]}}

EqualsSigns(p) == {i \in 1..Len(p) : p[i] = "="}

NameOf(p) == SubSeq(p, 1, (CHOOSE i \in EqualsSigns(p) : TRUE) - 1)

ValueOf(p) == SubSeq(p, (CHOOSE i \in EqualsSigns(p) : TRUE) + 1, Len(p))

IsIntegerLiteral(v) ==
  LET digits == IF Len(v) > 0 /\ v[1] \in {"+", "-"} THEN Tail(v) ELSE v
  IN  /\ Len(digits) > 0
      /\ \A i \in 1..Len(digits) :
           digits[i] \in {"0", "1", "2", "3", "4", "5", "6", "7", "8", "9"}

RECURSIVE Pow10(_)
Pow10(n) == IF n = 0 THEN 1 ELSE 10 * Pow10(n - 1)

\* the integer a literal denotes
IntegerOf(v) ==
  LET signed == Len(v) > 0 /\ v[1] \in {"+", "-"}
      d == IF signed THEN Tail(v) ELSE v
      Digit(c) == CASE c = "0" -> 0 [] c = "1" -> 1 [] c = "2" -> 2 [] c = "3" -> 3
                    [] c = "4" -> 4 [] c = "5" -> 5 [] c = "6" -> 6 [] c = "7" -> 7
                    [] c = "8" -> 8 [] c = "9" -> 9
      Place(i) == Digit(d[i]) * Pow10(Len(d) - i)
      Sum[i \in 0..Len(d)] == IF i = 0 THEN 0 ELSE Sum[i - 1] + Place(i)
  IN  IF signed /\ v[1] = "-" THEN 0 - Sum[Len(d)] ELSE Sum[Len(d)]

WellFormedPair(p) ==
  /\ Cardinality(EqualsSigns(p)) = 1
  /\ NameOf(p) # <<>>
  /\ IsIntegerLiteral(ValueOf(p))

Malformed(s) == s # <<>> /\ \E p \in Pieces(s) : ~WellFormedPair(p[2])

\* the mapping a well-formed list describes: each listed name, with the value
\* of the last pair that lists it
ListedMapping(s) ==
  LET names == {NameOf(p[2]) : p \in Pieces(s)}
      Last(n) == CHOOSE p \in Pieces(s) :
                   /\ NameOf(p[2]) = n
                   /\ \A q \in Pieces(s) : NameOf(q[2]) = n => q[1] <= p[1]
  IN  IF s = <<>> THEN EmptyMap
      ELSE [n \in names |-> IntegerOf(ValueOf(Last(n)[2]))]

\* no name is listed with two different values
NoConflict(s) ==
  s # <<>> =>
    \A p, q \in Pieces(s) :
      NameOf(p[2]) = NameOf(q[2]) => IntegerOf(ValueOf(p[2])) = IntegerOf(ValueOf(q[2]))

RECURSIVE Join(_)
Join(pieces) ==
  IF Len(pieces) = 0 THEN <<>>
  ELSE IF Len(pieces) = 1 THEN pieces[1]
  ELSE pieces[1] \o <<",">> \o Join(Tail(pieces))

\* the lists made of the same pairs as s, in every order
Reorderings(s) ==
  LET ps == Split(s, ",")
      n  == Len(ps)
  IN  {Join([i \in 1..n |-> ps[f[i]]]) :
         f \in {g \in [1..n -> 1..n] : \A i, j \in 1..n : g[i] = g[j] => i = j}}

(* ------------------------------- claims ------------------------------- *)

\* C1: whenever ReadMaxLoad is called with a malformed max-load list, it
\* returns an error and leaves the MaxLoad mapping as it was before the call.
C1_MalformedLeavesMaxLoadUnchanged ==
  [][\A t \in Threads :
       (ReadMaxLoad(t) /\ Malformed(maxLoadList))
         => (ret'[t].str # "" /\ MaxLoad' = MaxLoad)]_vars

\* C2, as claimed: for a valid max-load list, reading it twice gives the same
\* mapping as reading it once, and reading any reordering of its pairs gives
\* the same mapping.
C2_IdempotentAndOrderIndependent ==
  ~Malformed(maxLoadList) =>
    LET once == ReadMaxLoadResult(MaxLoad, maxLoadList).MaxLoad
    IN  /\ ReadMaxLoadResult(once, maxLoadList).MaxLoad = once
        /\ \A r \in Reorderings(maxLoadList) :
             ReadMaxLoadResult(MaxLoad, r).MaxLoad = once

\* C2, amended: for a valid max-load list, reading it twice gives the same
\* mapping as reading it once; and if no name is listed with two different
\* values, reading any reordering of its pairs gives the same mapping.
C2_IdempotentAndOrderIndependentWithoutConflict ==
  ~Malformed(maxLoadList) =>
    LET once == ReadMaxLoadResult(MaxLoad, maxLoadList).MaxLoad
    IN  /\ ReadMaxLoadResult(once, maxLoadList).MaxLoad = once
        /\ NoConflict(maxLoadList) =>
             \A r \in Reorderings(maxLoadList) :
               ReadMaxLoadResult(MaxLoad, r).MaxLoad = once

\* a valid list of two pairs with different names has been read
C2_Witness ==
  /\ ret[Main].op = "ReadMaxLoad"
  /\ ret[Main].str = ""
  /\ Len(Split(maxLoadList, ",")) = 2
  /\ NoConflict(maxLoadList)
  /\ Reorderings(maxLoadList) # {maxLoadList}
  /\ MaxLoad = ListedMapping(maxLoadList)

\* C3: ReadMaxLoad returns an error exactly when the list is malformed; a
\* well-formed list read into an empty mapping leaves exactly the listed names
\* with their values; the empty list returns no error and changes nothing.
C3_ErrorIffMalformed ==
  [][\A t \in Threads :
       ReadMaxLoad(t) =>
         /\ ret'[t].str # "" <=> Malformed(maxLoadList)
         /\ (~Malformed(maxLoadList) /\ MaxLoad = EmptyMap)
              => MaxLoad' = ListedMapping(maxLoadList)
         /\ maxLoadList = <<>> => (ret'[t].str = "" /\ MaxLoad' = MaxLoad)]_vars

\* two conditions were read without error
C3_Witness ==
  /\ ret[Main].op = "ReadMaxLoad"
  /\ ret[Main].str = ""
  /\ Cardinality(DOMAIN MaxLoad) = 2

\* C4: the three cut-over constants are pairwise distinct, so the value stored
\* in CutOverType names exactly one strategy.
C4_CutOverStrategiesDistinct ==
  /\ CutOverTwoStep # CutOverVoluntaryLock
  /\ CutOverTwoStep # CutOverUdfWait
  /\ CutOverVoluntaryLock # CutOverUdfWait
  /\ CutOverType # 0 =>
       Cardinality({i \in 1..3 :
          <<CutOverTwoStep, CutOverVoluntaryLock, CutOverUdfWait>>[i] = CutOverType}) = 1

\* C5: a goroutine that has read both throttle fields in IsThrottled holds the
\* pair of the last SetThrottled call that completed its writes (or the initial
\* pair (FALSE, "") if none did), and what IsThrottled returns is always the
\* initial pair or a pair some SetThrottled call was given: never the flag of
\* one call with the reason of another.
C5_IsThrottledReturnsOneCallsPair ==
  \A t \in Threads :
    /\ pc[t] = "IsThrottled_Unlock" => <<local[t].flag, local[t].str>> = lastSet
    /\ ret[t].op = "IsThrottled" =>
         <<ret[t].flag, ret[t].str>> \in ThrottleArgs \cup {<<FALSE, "">>}

\* a goroutine has read a pair that was set, while another waits to set the next
C5_Witness ==
  \E t, u \in Threads :
    /\ pc[t] = "IsThrottled_Unlock"
    /\ <<local[t].flag, local[t].str>> = <<TRUE, "max-load">>
    /\ pc[u] = "SetThrottled_Lock"
    /\ local[u].str = "lag"

\* C6: when ApplyCredentials runs, the inspector's user becomes CliUser if that
\* is non-empty, else the file's user if that is non-empty, else stays; and the
\* same, independently, for the password.
C6_CommandLineCredentialsWin ==
  [][\A t \in Threads :
       ApplyCredentials(t) =>
         /\ InspectorConnectionConfig'.User =
              IF CliUser # "" THEN CliUser
              ELSE IF config.User # "" THEN config.User
              ELSE InspectorConnectionConfig.User
         /\ InspectorConnectionConfig'.Password =
              IF CliPassword # "" THEN CliPassword
              ELSE IF config.Password # "" THEN config.Password
              ELSE InspectorConnectionConfig.Password]_vars

\* the command line gave a user, the file a user and a password, and the
\* inspector ended with the command line's user and the file's password
C6_Witness ==
  /\ ret[Main].op = "ApplyCredentials"
  /\ CliUser # "" /\ config.User # "" /\ CliPassword = "" /\ config.Password # ""
  /\ InspectorConnectionConfig = [User |-> CliUser, Password |-> config.Password]

\* C7: in every state the four names are the original table name (and the
\* database name) between fixed affixes, whatever else has run; a name a getter
\* returned is that name; the three table names differ from each other and
\* from the original table name.
C7_DerivedNames ==
  LET ghost     == <<"_">> \o OriginalTableName \o <<"_", "g", "s", "t">>
      old       == <<"_">> \o OriginalTableName \o <<"_", "o", "l", "d">>
      changelog == <<"_">> \o OriginalTableName \o <<"_", "o", "s", "c">>
      lock      == DatabaseName \o <<".">> \o OriginalTableName \o <<".", "l", "o", "c", "k">>
      Named(o)  == CASE o = "GetGhostTableName" -> ghost
                     [] o = "GetOldTableName" -> old
                     [] o = "GetChangelogTableName" -> changelog
                     [] o = "GetVoluntaryLockName" -> lock
  IN  /\ GetGhostTableName = ghost
      /\ GetOldTableName = old
      /\ GetChangelogTableName = changelog
      /\ GetVoluntaryLockName = lock
      /\ \A t \in Threads :
           ret[t].op \in {"GetGhostTableName", "GetOldTableName",
                          "GetChangelogTableName", "GetVoluntaryLockName"}
             => ret[t].seq = Named(ret[t].op)
      /\ Cardinality({GetGhostTableName, GetOldTableName, GetChangelogTableName,
                      OriginalTableName}) = 4

\* the old table's name was asked for after chunks were copied and the
\* throttle was set
C7_Witness ==
  /\ ret[Main].op = "GetOldTableName"
  /\ ret[Main].seq = <<"_", "t", "_", "o", "l", "d">>
  /\ Iteration > 0
  /\ isThrottled

\* C8: a context nothing has run on yet carries the defaults: chunk size 1000,
\* lag threshold 1000 ms, swap timeout 3 s, no max-load condition, not
\* throttled and no reason, iteration 0, no rows copied, no migration range;
\* and MaxRetries is 10 in every state.
C8_Defaults ==
  /\ fresh =>
       /\ ChunkSize = 1000
       /\ MaxLagMillisecondsThrottleThreshold = 1000
       /\ SwapTablesTimeoutSeconds = 3
       /\ MaxLoad = EmptyMap
       /\ isThrottled = FALSE
       /\ throttleReason = ""
       /\ Iteration = 0
       /\ TotalRowsCopied = 0
       /\ ~HasMigrationRange
  /\ MaxRetries = 10

\* a context nothing has run on yet
C8_Witness == fresh /\ \A t \in Threads : pc[t] = "idle" /\ ret[t] = NoRet

\* the mutexes goroutine t holds
Held(t) ==
  {i \in 1..3 : <<configMutex, pointOfInterestTimeMutex, throttleMutex>>[i] = t}

\* goroutine t is between the Lock and the Unlock of SetThrottled or IsThrottled
InThrottleSection(t) ==
  pc[t] \in {"SetThrottled_isThrottled", "SetThrottled_throttleReason",
             "SetThrottled_Unlock", "IsThrottled_isThrottled",
             "IsThrottled_throttleReason", "IsThrottled_Unlock"}

C9_NoContention ==
  /\ \A t \in Threads : Cardinality(Held(t)) <= 1
  /\ (\E t \in Threads : pc[t] # "idle")
       => \E u \in Threads : ENABLED (LockStep(u) \/ BodyStep(u))
  /\ \A t \in Threads :
       (/\ pc[t] \in {"SetThrottled_Lock", "IsThrottled_Lock"}
        /\ \A u \in Threads : ~InThrottleSection(u))
         => ENABLED LockStep(t)

\* C9: no goroutine ever holds two of the three mutexes; while any call is in
\* progress some call can take a step (no deadlock); a SetThrottled or
\* IsThrottled call waiting for its mutex can take it unless another goroutine
\* is inside SetThrottled or IsThrottled, whatever the configuration and
\* point-of-interest mutexes' holders do; and, scheduled fairly, every call
\* returns.
C9_IndependentLocks ==
  /\ []C9_NoContention
  /\ \A t \in Threads : (pc[t] # "idle") ~> (pc[t] = "idle")

\* one goroutine sets the throttle, holding its mutex, while the other holds
\* the configuration mutex
C9_Witness ==
  \E t, u \in Threads :
    /\ pc[t] = "ApplyCredentials_body" /\ configMutex = t
    /\ pc[u] = "SetThrottled_throttleReason" /\ throttleMutex = u

\* C10: no step of a call to a method of the context changes Iteration,
\* TotalRowsCopied or TotalDMLEventsApplied; GetIteration and
\* GetTotalRowsCopied return the counters' current values;
\* MarkPointOfInterest loads and returns the current Iteration and changes,
\* of the context's data, only the point-of-interest time.
C10_ObserversLeaveCounters ==
  [][\A t \in Threads :
       /\ (pc'[t] # pc[t] \/ ret'[t] # ret[t] \/ local'[t] # local[t])
            => UNCHANGED counters
       /\ GetIteration(t) => ret'[t].num = Iteration
       /\ GetTotalRowsCopied(t) => ret'[t].num = TotalRowsCopied
       /\ (pc[t] = "MarkPointOfInterest_body" /\ pc'[t] # pc[t])
            => /\ local'[t].num = Iteration
               /\ UNCHANGED <<inputs, settings, range, counters, throttleState,
                              creds, MaxLoad, CutOverType>>
       /\ (pc[t] = "MarkPointOfInterest_Unlock" /\ pc'[t] # pc[t])
            => /\ ret'[t].op = "MarkPointOfInterest"
               /\ ret'[t].num = local[t].num
               /\ UNCHANGED <<inputs, settings, range, counters, throttleState,
                              creds, MaxLoad, CutOverType, pointOfInterestTime>>]_vars

\* after a chunk was copied and an event applied, MarkPointOfInterest has
\* returned the iteration and set the time
C10_Witness ==
  /\ ret[Main].op = "MarkPointOfInterest"
  /\ ret[Main].num = 1
  /\ Iteration = 1
  /\ TotalRowsCopied = 1000
  /\ TotalDMLEventsApplied = 1
  /\ pointOfInterestTime = 2

=============================================================================
